---- MODULE Spec2Model ----
(***************************************************************************)
(* The sqd codec of PASKIL: cSquish.c (masking, container file, decode     *)
(* loop) on top of chuffman.c (histogram, Huffman tree, canonical code).   *)
(*                                                                         *)
(* Arrays indexed from 0 in C are functions over 0..n-1 here, so that the  *)
(* indices of the model are the indices of the source.  Bit arrays and the *)
(* bytes of the file are sequences (bit i of the source is element i+1).   *)
(* A pointer to a tree node is the position of the node in the arena       *)
(* `nodes`; NULL is 0.                                                     *)
(***************************************************************************)
EXTENDS Integers, Sequences, FiniteSets, TLC

(***************************************************************************)
(* Bounds.  NUM_CHARS is 65537 in huffman.h; the model runs the same code  *)
(* over a smaller alphabet (the last symbol stays the EOF symbol).         *)
(***************************************************************************)
NUM_CHARS == 4
MaxLen == 5
MaxDim == 2
MaxCells == 4
MaxPixel == 1
MaxAnyLen == 3
\* UINT_MAX in huffman.h: the largest value of a count_t.  The model counts in
\* a narrower count_t, wide enough for every stream of MaxLen or MaxCells
\* values, so that a count can reach its maximum on a longer array.
COUNT_T_MAX == 6
MaxPayload == 3
MaxElements == 3

EOF_CHAR == NUM_CHARS - 1
NONE == -1
COMPOSITE_NODE == -1
NULL == 0
INT_MAX == 2147483647
CHAR_BIT == 8
BYTE_T_MOD == 256

Symbols == 0 .. (NUM_CHARS - 1)

(***************************************************************************)
(* Small helpers over sequences and functions.                             *)
(***************************************************************************)
RECURSIVE SumTo(_, _)
SumTo(f, n) == IF n < 0 THEN 0 ELSE f[n] + SumTo(f, n - 1)

RECURSIVE Pow2(_)
Pow2(n) == IF n <= 0 THEN 1 ELSE 2 * Pow2(n - 1)

\* the array with elements f[1] .. f[n], as a sequence
RECURSIVE Tuple(_, _)
Tuple(f, n) == IF n = 0 THEN << >> ELSE Append(Tuple(f, n - 1), f[n])

\* the array with elements f[0] .. f[n-1], as a function over 0 .. n-1
RECURSIVE Array(_, _)
Array(f, n) == IF n = 0 THEN << >> ELSE IF n = 1 THEN (0 :> f[0])
               ELSE Array(f, n - 1) @@ ((n - 1) :> f[n - 1])

SubSeqFrom(s, p) == IF p > Len(s) THEN << >> ELSE SubSeq(s, p, Len(s))

SeqsUpTo(S, n) == UNION { [1 .. m -> S] : m \in 0 .. n }

(***************************************************************************)
(* bitarray library (bitarray.h is included by huffman.h; its source is    *)
(* not part of the files at hand).  A bit array of numBits bits is a       *)
(* sequence of 0/1; bit 0 is the first element.                            *)
(***************************************************************************)
BitArrayCreate(bits) == Tuple([i \in 1 .. bits |-> 0], bits)

BitArrayClearAll(ba) == Tuple([i \in 1 .. Len(ba) |-> 0], Len(ba))

BitArrayDuplicate(ba) == ba

BitArrayTestBit(ba, bit) == bit < Len(ba) /\ ba[bit + 1] = 1

BitArraySetBit(ba, bit) == IF bit < Len(ba) THEN [ba EXCEPT ![bit + 1] = 1] ELSE ba

BitArrayShiftRight(ba, shifts) ==
    Tuple([i \in 1 .. Len(ba) |-> IF i > shifts THEN ba[i - shifts] ELSE 0], Len(ba))

BitArrayShiftLeft(ba, shifts) ==
    Tuple([i \in 1 .. Len(ba) |-> IF i + shifts <= Len(ba) THEN ba[i + shifts] ELSE 0], Len(ba))

\* big-endian + 1 with carry; all ones wraps to all zeros
BitArrayIncrement(ba) ==
    LET zeros == {i \in 1 .. Len(ba) : ba[i] = 0}
    IN  IF zeros = {} THEN BitArrayClearAll(ba)
        ELSE LET p == CHOOSE i \in zeros : \A m \in zeros : m <= i
             IN  Tuple([i \in 1 .. Len(ba) |-> IF i < p THEN ba[i] ELSE IF i = p THEN 1 ELSE 0],
                       Len(ba))

\* lexicographic from bit 0
BitArrayCompare(ba1, ba2) ==
    LET diff == {i \in 1 .. Len(ba1) : i <= Len(ba2) /\ ba1[i] # ba2[i]}
    IN  IF diff = {} THEN 0
        ELSE LET p == CHOOSE i \in diff : \A m \in diff : i <= m
             IN  IF ba1[p] > ba2[p] THEN 1 ELSE -1

\* the unsigned integer held in the first n bits of a left-justified code
RECURSIVE BitsValue(_, _)
BitsValue(ba, n) == IF n = 0 THEN 0 ELSE 2 * BitsValue(ba, n - 1) + ba[n]

\* BIT_CHAR/BIT_IN_CHAR: byte i of the packed array, most significant bit first
ByteOf(ba, i) ==
    LET bitAt(m) == IF i * CHAR_BIT + m + 1 <= Len(ba) THEN ba[i * CHAR_BIT + m + 1] ELSE 0
    IN  128 * bitAt(0) + 64 * bitAt(1) + 32 * bitAt(2) + 16 * bitAt(3)
        + 8 * bitAt(4) + 4 * bitAt(5) + 2 * bitAt(6) + bitAt(7)

BitOfBytes(bytes, bit) == (bytes[(bit \div CHAR_BIT) + 1] \div Pow2(CHAR_BIT - 1 - (bit % CHAR_BIT))) % 2

(***************************************************************************)
(* The comparison functions handed to qsort.                               *)
(***************************************************************************)
\* variant: equal lengths ordered by descending value
CompareByCodeLen_descending(item1, item2) ==
    IF item1.codeLen > item2.codeLen THEN 1
    ELSE IF item1.codeLen < item2.codeLen THEN -1
    ELSE IF item1.value < item2.value THEN 1 ELSE -1

CompareByCodeLen(item1, item2) ==
    IF item1.codeLen > item2.codeLen THEN 1
    ELSE IF item1.codeLen < item2.codeLen THEN -1
    ELSE IF item1.value > item2.value THEN 1 ELSE -1

\* variant: the comparison the other way round
CompareBySymbolValue_reversed(item1, item2) ==
    IF item1.value < item2.value THEN 1 ELSE -1

CompareBySymbolValue(item1, item2) ==
    IF item1.value > item2.value THEN 1 ELSE -1

\* the call through the function pointer compar, a pointer being the name of
\* the function it points to
Compare(compar, item1, item2) ==
    IF compar = "CompareByCodeLen" THEN CompareByCodeLen(item1, item2)
    ELSE CompareBySymbolValue(item1, item2)

\* qsort with a comparison function that is a strict total order on the
\* items: item k of the result is the item with exactly k smaller items
qsort(base, num, compar) ==
    Array([k \in 0 .. (num - 1) |->
              base[CHOOSE j \in 0 .. (num - 1) :
                     Cardinality({m \in 0 .. (num - 1) :
                                     m # j /\ Compare(compar, base[m], base[j]) < 0}) = k]],
          num)

(***************************************************************************)
(* Huffman tree (chuffman.c).                                              *)
(***************************************************************************)
\* variant: a new leaf is active from the start
AllocHuffmanNode_active(value) ==
    [value |-> value, ignore |-> FALSE, count |-> 0, level |-> 0,
     left |-> NULL, right |-> NULL, parent |-> NULL]

\* "at this point, the node is not part of a tree"
AllocHuffmanNode(value) ==
    [value |-> value, ignore |-> TRUE, count |-> 0, level |-> 0,
     left |-> NULL, right |-> NULL, parent |-> NULL]

Max(a, b) == IF a > b THEN a ELSE b

\* variant: the right child is not told its parent
AllocHuffmanCompositeNode_orphan(nodes, left, right) ==
    LET id == Len(nodes) + 1
        ht == [value |-> COMPOSITE_NODE, ignore |-> FALSE,
               count |-> nodes[left].count + nodes[right].count,
               level |-> Max(nodes[left].level, nodes[right].level) + 1,
               left |-> left, right |-> right, parent |-> NULL]
    IN  Append([nodes EXCEPT ![left].parent = id], ht)

\* appends the composite node to the arena and attaches the children
AllocHuffmanCompositeNode(nodes, left, right) ==
    LET id == Len(nodes) + 1
        ht == [value |-> COMPOSITE_NODE, ignore |-> FALSE,
               count |-> nodes[left].count + nodes[right].count,
               level |-> Max(nodes[left].level, nodes[right].level) + 1,
               left |-> left, right |-> right, parent |-> NULL]
    IN  Append([nodes EXCEPT ![left].parent = id, ![right].parent = id], ht)

\* variant: equal counts are not compared by level
RECURSIVE FindMinimumScan_countOnly(_, _, _, _, _)
FindMinimumScan_countOnly(nodes, ht, elements, i, cur) ==
    IF i >= elements THEN cur.currentIndex
    ELSE IF /\ ht[i] # NULL
            /\ ~nodes[ht[i]].ignore
            /\ nodes[ht[i]].count < cur.currentCount
         THEN FindMinimumScan_countOnly(nodes, ht, elements, i + 1,
                  [currentIndex |-> i, currentCount |-> nodes[ht[i]].count,
                   currentLevel |-> nodes[ht[i]].level])
         ELSE FindMinimumScan_countOnly(nodes, ht, elements, i + 1, cur)

\* the for loop of FindMinimumCount
RECURSIVE FindMinimumScan(_, _, _, _, _)
FindMinimumScan(nodes, ht, elements, i, cur) ==
    IF i >= elements THEN cur.currentIndex
    ELSE IF /\ ht[i] # NULL
            /\ ~nodes[ht[i]].ignore
            /\ \/ nodes[ht[i]].count < cur.currentCount
               \/ /\ nodes[ht[i]].count = cur.currentCount
                  /\ nodes[ht[i]].level < cur.currentLevel
         THEN FindMinimumScan(nodes, ht, elements, i + 1,
                  [currentIndex |-> i, currentCount |-> nodes[ht[i]].count,
                   currentLevel |-> nodes[ht[i]].level])
         ELSE FindMinimumScan(nodes, ht, elements, i + 1, cur)

\* variant: the first active element, whatever its count
FindMinimumCount_first(nodes, ht, elements) ==
    LET active == {i \in 0 .. (elements - 1) : ht[i] # NULL /\ ~nodes[ht[i]].ignore}
    IN  IF active = {} THEN NONE ELSE CHOOSE i \in active : \A m \in active : i <= m

FindMinimumCount(nodes, ht, elements) ==
    FindMinimumScan(nodes, ht, elements, 0,
        [currentIndex |-> NONE, currentCount |-> INT_MAX, currentLevel |-> INT_MAX])

\* result: the arena, the root pointer, whether ht[NONE] was indexed, the merges done
RECURSIVE BuildHuffmanTree(_, _, _, _)
BuildHuffmanTree(nodes, ht, elements, merges) ==
    LET min1 == FindMinimumCount(nodes, ht, elements)
    IN  IF min1 = NONE
        THEN [nodes |-> nodes, root |-> NULL, indexedNone |-> TRUE, merges |-> merges]
        ELSE LET n1 == [nodes EXCEPT ![ht[min1]].ignore = TRUE]
                 min2 == FindMinimumCount(n1, ht, elements)
             IN  IF min2 = NONE
                 THEN [nodes |-> n1, root |-> ht[min1], indexedNone |-> FALSE, merges |-> merges]
                 ELSE LET n2 == [n1 EXCEPT ![ht[min2]].ignore = TRUE]
                          n3 == AllocHuffmanCompositeNode(n2, ht[min1], ht[min2])
                      IN  BuildHuffmanTree(n3, [ht EXCEPT ![min1] = Len(n3), ![min2] = NULL],
                                           elements, merges + 1)

\* the counting loop: leaf c is node c+1 of the arena
RECURSIVE CountLoop(_, _, _)
CountLoop(nodes, raw_data, i) ==
    IF i > Len(raw_data) THEN [nodes |-> nodes, ok |-> TRUE]
    ELSE LET c == raw_data[i]
         IN  IF nodes[c + 1].count < COUNT_T_MAX
             THEN CountLoop([nodes EXCEPT ![c + 1].count = @ + 1, ![c + 1].ignore = FALSE],
                            raw_data, i + 1)
             ELSE [nodes |-> nodes, ok |-> FALSE]

\* "allocate array of leaves for all possible characters"
RECURSIVE AllocLeaves(_)
AllocLeaves(c) == IF c = 0 THEN << >> ELSE Append(AllocLeaves(c - 1), AllocHuffmanNode(c - 1))

GenerateTreeFromArray(raw_data) ==
    LET leaves == AllocLeaves(NUM_CHARS)
        withEof == [leaves EXCEPT ![EOF_CHAR + 1].count = 1, ![EOF_CHAR + 1].ignore = FALSE]
        counted == CountLoop(withEof, raw_data, 1)
        huffmanArray == Array([c \in Symbols |-> c + 1], NUM_CHARS)
    IN  IF ~counted.ok
        THEN [nodes |-> counted.nodes, root |-> NULL, indexedNone |-> FALSE, merges |-> 0]
        ELSE BuildHuffmanTree(counted.nodes, huffmanArray, NUM_CHARS, 0)

(***************************************************************************)
(* Canonical code (chuffman.c).  A canonical list is a function over       *)
(* 0..NUM_CHARS-1 of entries [value, codeLen, code]; a NULL code is << >>. *)
(***************************************************************************)
NULL_CODE == << >>

\* variant: every step to the left counts as two levels
RECURSIVE FollowLeft_double(_, _, _)
FollowLeft_double(nodes, ht, depth) ==
    IF nodes[ht].left # NULL THEN FollowLeft_double(nodes, nodes[ht].left, depth + 2)
    ELSE [ht |-> ht, depth |-> depth]

\* "follow this branch all the way left"
RECURSIVE FollowLeft(_, _, _)
FollowLeft(nodes, ht, depth) ==
    IF nodes[ht].left # NULL THEN FollowLeft(nodes, nodes[ht].left, depth + 1)
    ELSE [ht |-> ht, depth |-> depth]

\* variant: no special case for the tree of one leaf
OneSymbolDepth_omitted(depth) == depth

\* "handle one symbol trees"
OneSymbolDepth(depth) == IF depth = 0 THEN depth + 1 ELSE depth

\* variant: going up a level leaves the depth as it is
RECURSIVE TryParent_flat(_, _, _)
TryParent_flat(nodes, ht, depth) ==
    IF nodes[ht].parent = NULL THEN [ht |-> ht, depth |-> depth]
    ELSE IF ht # nodes[nodes[ht].parent].right
         THEN [ht |-> nodes[nodes[ht].parent].right, depth |-> depth]
         ELSE TryParent_flat(nodes, nodes[ht].parent, depth)

\* the while (ht->parent != NULL) loop: go to the parent's right, or up
RECURSIVE TryParent(_, _, _)
TryParent(nodes, ht, depth) ==
    IF nodes[ht].parent = NULL THEN [ht |-> ht, depth |-> depth]
    ELSE IF ht # nodes[nodes[ht].parent].right
         THEN [ht |-> nodes[nodes[ht].parent].right, depth |-> depth]
         ELSE TryParent(nodes, nodes[ht].parent, depth - 1)

\* "fill list with code lengths (depth) from tree"; visits counts the leaves entered
RECURSIVE FillCodeLengths(_, _, _, _, _)
FillCodeLengths(nodes, ht, depth, cl, visits) ==
    LET low == FollowLeft(nodes, ht, depth)
        isLeaf == nodes[low.ht].value # COMPOSITE_NODE
        d1 == IF isLeaf THEN OneSymbolDepth(low.depth) ELSE low.depth
        cl1 == IF isLeaf THEN [cl EXCEPT ![nodes[low.ht].value].codeLen = d1] ELSE cl
        v1 == IF isLeaf THEN Append(visits, nodes[low.ht].value) ELSE visits
        up == TryParent(nodes, low.ht, d1)
    IN  IF nodes[up.ht].parent = NULL THEN [cl |-> cl1, visits |-> v1]
        ELSE FillCodeLengths(nodes, up.ht, up.depth, cl1, v1)

\* variant: the running code is not re-based when the length shortens
AdjustCode_unshifted(code, length, codeLen) == code

\* variant: the running code is shifted by one bit less than the lengths differ
AdjustCode_short(code, length, codeLen) ==
    IF codeLen < length THEN BitArrayShiftRight(code, length - codeLen - 1) ELSE code

\* "adjust code if this length is shorter than the previous"
AdjustCode(code, length, codeLen) ==
    IF codeLen < length THEN BitArrayShiftRight(code, length - codeLen) ELSE code

\* the for loop of AssignCanonicalCodes; length is a byte_t
RECURSIVE AssignLoop(_, _, _, _)
AssignLoop(cl, i, code, length) ==
    IF i < 0 THEN cl
    ELSE IF cl[i].codeLen = 0 THEN cl
    ELSE LET code1 == AdjustCode(code, length, cl[i].codeLen)
             length1 == IF cl[i].codeLen < length THEN cl[i].codeLen % BYTE_T_MOD ELSE length
             entry == BitArrayShiftLeft(BitArrayDuplicate(code1), NUM_CHARS - 1 - length1)
         IN  AssignLoop([cl EXCEPT ![i].code = entry], i - 1, BitArrayIncrement(code1), length1)

\* the value returned by AssignCanonicalCodes: FALSE only when BitArrayDuplicate
\* fails, which no allocation of the model does; in particular TRUE for a list
\* whose lengths are all zero, where the loop breaks on its first turn
AssignCanonicalCodesReturned(cl) == TRUE

\* the list as AssignCanonicalCodes leaves it
AssignCanonicalCodes(cl) ==
    AssignLoop(cl, NUM_CHARS - 1, BitArrayClearAll(BitArrayCreate(NUM_CHARS - 1)),
               cl[NUM_CHARS - 1].codeLen % BYTE_T_MOD)

InitialList ==
    Array([i \in Symbols |-> [value |-> i, codeLen |-> 0, code |-> NULL_CODE]], NUM_CHARS)

\* variant: the list is left in code length order
BuildCanonicalCode_byLength(nodes, ht) ==
    LET filled == FillCodeLengths(nodes, ht, 0, InitialList, << >>)
        byLen == qsort(filled.cl, NUM_CHARS, "CompareByCodeLen")
        assigned == AssignCanonicalCodes(byLen)
    IN  [cl |-> assigned, byLen |-> assigned, visits |-> filled.visits]

BuildCanonicalCode(nodes, ht) ==
    LET filled == FillCodeLengths(nodes, ht, 0, InitialList, << >>)
        byLen == qsort(filled.cl, NUM_CHARS, "CompareByCodeLen")
        assigned == AssignCanonicalCodes(byLen)
    IN  [cl |-> qsort(assigned, NUM_CHARS, "CompareBySymbolValue"),
         byLen |-> assigned, visits |-> filled.visits]

(***************************************************************************)
(* CHuffmanEncodeArray and histogram (chuffman.c).                         *)
(***************************************************************************)
histogram(data) ==
    Array([c \in Symbols |-> Cardinality({i \in 1 .. Len(data) : data[i] = c})], NUM_CHARS)

\* variant: the bits of a code are copied last bit first
RECURSIVE PutCode_reversed(_, _, _, _)
PutCode_reversed(encoded_data, entry, j, k) ==
    IF j >= entry.codeLen THEN [data |-> encoded_data, k |-> k]
    ELSE PutCode_reversed(IF BitArrayTestBit(entry.code, entry.codeLen - 1 - j)
                          THEN BitArraySetBit(encoded_data, k)
                          ELSE encoded_data,
                          entry, j + 1, k + 1)

\* copies the first codeLen bits of a code into the bit array from bit k on
RECURSIVE PutCode(_, _, _, _)
PutCode(encoded_data, entry, j, k) ==
    IF j >= entry.codeLen THEN [data |-> encoded_data, k |-> k]
    ELSE PutCode(IF BitArrayTestBit(entry.code, j) THEN BitArraySetBit(encoded_data, k)
                 ELSE encoded_data,
                 entry, j + 1, k + 1)

RECURSIVE EncodeLoop(_, _, _, _, _)
EncodeLoop(encoded_data, canonicalList, raw_data, i, k) ==
    IF i > Len(raw_data)
    THEN PutCode(encoded_data, canonicalList[EOF_CHAR], 0, k)
    ELSE LET put == PutCode(encoded_data, canonicalList[raw_data[i]], 0, k)
         IN  EncodeLoop(put.data, canonicalList, raw_data, i + 1, put.k)

\* NULL result (ok = FALSE) when the tree could not be generated
CHuffmanEncodeArray(raw_data) ==
    LET tree == GenerateTreeFromArray(raw_data)
    IN  IF tree.root = NULL
        THEN [ok |-> FALSE, size |-> 0, data |-> << >>, canonicalList |-> InitialList,
              k |-> 0, tree |-> tree, visits |-> << >>]
        ELSE LET built == BuildCanonicalCode(tree.nodes, tree.root)
                 canonicalList == built.cl
                 hist == histogram(raw_data)
                 bit_array_length ==
                     SumTo([i \in Symbols |-> hist[i] * canonicalList[i].codeLen], NUM_CHARS - 1)
                     + canonicalList[EOF_CHAR].codeLen
                 done == EncodeLoop(BitArrayCreate(bit_array_length), canonicalList, raw_data, 1, 0)
             IN  [ok |-> TRUE, size |-> bit_array_length, data |-> done.data,
                  canonicalList |-> canonicalList, k |-> done.k, tree |-> tree,
                  visits |-> built.visits]

(***************************************************************************)
(* The decoder of cSquish_decompress (cSquish.c), after the file was read: *)
(* decode_table holds num_chars code lengths, data the payload bytes.      *)
(***************************************************************************)
\* "convert decode table to canonicalList", sort, assign
ReplayCanonicalList(decode_table) ==
    LET canonicalList == Array([i \in Symbols |->
                                   [value |-> i, codeLen |-> decode_table[i], code |-> NULL_CODE]],
                               NUM_CHARS)
    IN  AssignCanonicalCodes(qsort(canonicalList, NUM_CHARS, "CompareByCodeLen"))

\* variant: the index of the last code at each length
LenIndex_last(canonicalList, num_chars) ==
    Array([len \in 0 .. (num_chars - 1) |->
              LET at == {i \in 0 .. (num_chars - 1) : canonicalList[i].codeLen = len}
              IN  IF at = {} THEN num_chars ELSE CHOOSE i \in at : \A m \in at : i >= m],
          num_chars)

\* "create an index of first code at each possible length"
LenIndex(canonicalList, num_chars) ==
    Array([len \in 0 .. (num_chars - 1) |->
              LET at == {i \in 0 .. (num_chars - 1) : canonicalList[i].codeLen = len}
              IN  IF at = {} THEN num_chars ELSE CHOOSE i \in at : \A m \in at : i <= m],
          num_chars)

\* the inner for loop: the index of the entry of this length equal to code, or NONE
RECURSIVE MatchCode(_, _, _, _, _)
MatchCode(canonicalList, num_chars, code, length, i) ==
    IF ~(i < num_chars /\ canonicalList[i].codeLen = length) THEN NONE
    ELSE IF BitArrayCompare(canonicalList[i].code, code) = 0 /\ canonicalList[i].codeLen = length
         THEN i
         ELSE MatchCode(canonicalList, num_chars, code, length, i + 1)

\* while (!decodedEOF): one payload bit per turn.  status is "eof" when the
\* EOF symbol was matched, "exhausted" when bit j lies beyond numBits,
\* "index" when lenIndex is indexed beyond its num_chars entries
RECURSIVE DecodeLoop(_, _, _, _, _, _, _, _)
DecodeLoop(data, canonicalList, lenIndex, num_chars, j, length, code, decoded) ==
    IF j >= CHAR_BIT * Len(data)
    THEN [status |-> "exhausted", j |-> j, k |-> Len(decoded), decoded |-> decoded]
    ELSE LET code1 == IF BitOfBytes(data, j) = 1 THEN BitArraySetBit(code, length) ELSE code
             length1 == length + 1
         IN  IF length1 >= num_chars
             THEN [status |-> "index", j |-> j + 1, k |-> Len(decoded), decoded |-> decoded]
             ELSE LET i == IF lenIndex[length1] # num_chars
                           THEN MatchCode(canonicalList, num_chars, code1, length1, lenIndex[length1])
                           ELSE NONE
                  IN  IF i = NONE
                      THEN DecodeLoop(data, canonicalList, lenIndex, num_chars, j + 1,
                                      length1, code1, decoded)
                      ELSE IF canonicalList[i].value # EOF_CHAR
                      THEN DecodeLoop(data, canonicalList, lenIndex, num_chars, j + 1,
                                      0, BitArrayClearAll(code1),
                                      Append(decoded, canonicalList[i].value))
                      ELSE [status |-> "eof", j |-> j + 1, k |-> Len(decoded), decoded |-> decoded]

\* the entries the inner for loop compares with code, up to and including a match
RECURSIVE TestedEntries(_, _, _, _, _)
TestedEntries(canonicalList, num_chars, code, length, i) ==
    IF ~(i < num_chars /\ canonicalList[i].codeLen = length) THEN {}
    ELSE IF BitArrayCompare(canonicalList[i].code, code) = 0 /\ canonicalList[i].codeLen = length
         THEN {i}
         ELSE {i} \cup TestedEntries(canonicalList, num_chars, code, length, i + 1)

\* variant: a match of a data value leaves the accumulated length and code as they are
DecodeTurn_noReset(st, num_chars) ==
    LET code1 == IF BitOfBytes(st.data, st.j) = 1 THEN BitArraySetBit(st.code, st.length)
                 ELSE st.code
        length1 == st.length + 1
        from == st.lenIndex[length1]
        i == IF from # num_chars
             THEN MatchCode(st.canonicalList, num_chars, code1, length1, from) ELSE NONE
        tested == IF from # num_chars
                  THEN TestedEntries(st.canonicalList, num_chars, code1, length1, from) ELSE {}
        turn == [st EXCEPT !.j = st.j + 1, !.matched = i, !.tested = tested]
    IN  IF i = NONE
        THEN [turn EXCEPT !.length = length1, !.code = code1]
        ELSE IF st.canonicalList[i].value # EOF_CHAR
        THEN [turn EXCEPT !.length = length1, !.code = code1,
                          !.decoded = Append(st.decoded, st.canonicalList[i].value),
                          !.k = st.k + 1]
        ELSE [turn EXCEPT !.length = 0, !.code = BitArrayClearAll(code1),
                          !.decodedEOF = TRUE]

\* one turn of while (!decodedEOF), for j below numBits and length + 1 below
\* num_chars: the loop's variables after the turn, the entry matched (or NONE)
\* and the entries compared
DecodeTurn(st, num_chars) ==
    LET code1 == IF BitOfBytes(st.data, st.j) = 1 THEN BitArraySetBit(st.code, st.length)
                 ELSE st.code
        length1 == st.length + 1
        from == st.lenIndex[length1]
        i == IF from # num_chars
             THEN MatchCode(st.canonicalList, num_chars, code1, length1, from) ELSE NONE
        tested == IF from # num_chars
                  THEN TestedEntries(st.canonicalList, num_chars, code1, length1, from) ELSE {}
        turn == [st EXCEPT !.j = st.j + 1, !.matched = i, !.tested = tested]
    IN  IF i = NONE
        THEN [turn EXCEPT !.length = length1, !.code = code1]
        ELSE IF st.canonicalList[i].value # EOF_CHAR
        THEN [turn EXCEPT !.length = 0, !.code = BitArrayClearAll(code1),
                          !.decoded = Append(st.decoded, st.canonicalList[i].value),
                          !.k = st.k + 1]
        ELSE [turn EXCEPT !.length = 0, !.code = BitArrayClearAll(code1),
                          !.decodedEOF = TRUE]

\* lines 238-372 of cSquish_decompress on a table and payload already in memory
DecodeArray(decode_table, data) ==
    LET canonicalList == ReplayCanonicalList(decode_table)
        lenIndex == LenIndex(canonicalList, NUM_CHARS)
        code == BitArrayClearAll(BitArrayCreate(NUM_CHARS - 1))
        run == DecodeLoop(data, canonicalList, lenIndex, NUM_CHARS, 0, 0, code, << >>)
    IN  [canonicalList |-> canonicalList, lenIndex |-> lenIndex, status |-> run.status,
         j |-> run.j, k |-> run.k, decoded |-> run.decoded]

\* ceil(size / 8.0) bytes of the bit array, as written to the file
PayloadBytes(encoded) ==
    Tuple([i \in 1 .. ((encoded.size + CHAR_BIT - 1) \div CHAR_BIT) |-> ByteOf(encoded.data, i - 1)],
          (encoded.size + CHAR_BIT - 1) \div CHAR_BIT)

CodeLenTable(canonicalList) == Array([i \in Symbols |-> canonicalList[i].codeLen], NUM_CHARS)

(***************************************************************************)
(* State.                                                                  *)
(***************************************************************************)
VARIABLES
    pc,            \* position of the caller: which call was made last
    raw_width,     \* dimensions[0] of the data array
    raw_height,    \* dimensions[1] of the data array
    raw_data,      \* the data array, flat, row-major
    mask,          \* the mask array, flat, row-major
    header_data,   \* the header text, a sequence of character codes
    masked_data,   \* the stream handed to CHuffmanEncodeArray
    encoded,       \* the encoded_array_t (with the tree it was derived from)
    file,          \* the bytes of the file on disk
    dec,           \* the decoder's canonical list, index and output
    ret,           \* what the last call returned to Python
    mask_width,    \* dimensions[0] of the mask array
    mask_height,   \* dimensions[1] of the mask array
    heap,          \* what the last compress call allocated and did not release
    payload_bytes, \* the bytes handed to the payload writing loop and those read back
    ht_array,      \* an array of node pointers handed to FindMinimumCount, and its result
    assigning      \* the variables of the for loop of AssignCanonicalCodes

vars == <<pc, raw_width, raw_height, raw_data, mask, header_data, masked_data,
          encoded, file, dec, ret, mask_width, mask_height, heap, payload_bytes, ht_array, assigning>>

NoEncoded == [ok |-> FALSE, size |-> 0, data |-> << >>, canonicalList |-> InitialList,
              k |-> 0, tree |-> [nodes |-> << >>, root |-> NULL, indexedNone |-> FALSE, merges |-> 0],
              visits |-> << >>]

NoDec == [canonicalList |-> InitialList, lenIndex |-> Array([len \in Symbols |-> NUM_CHARS], NUM_CHARS),
          status |-> "none", j |-> 0, k |-> 0, decoded |-> << >>]

NoRet == [kind |-> "none"]

NoPayload == [written |-> << >>, num_bytes |-> 0, data |-> << >>]

NoAssign == [cl |-> InitialList, i |-> NONE, code |-> NULL_CODE, length |-> 0,
             codeLen |-> 0, value |-> 0, shifts |-> 0, dropped |-> 0, carried |-> FALSE]

NoArray == [nodes |-> << >>, ht |-> << >>, elements |-> 0, min |-> NONE]

\* the file name names no file yet (an fopen for reading would return NULL)
NoFile == <<NONE>>

(***************************************************************************)
(* The codec alone: every stream of at most MaxLen data symbols is encoded *)
(* by CHuffmanEncodeArray and decoded by the decoder of cSquish_decompress.*)
(***************************************************************************)
DataSymbols == 0 .. (NUM_CHARS - 2)

InitCodec ==
    /\ pc = "stream"
    /\ masked_data \in SeqsUpTo(DataSymbols, MaxLen)
    /\ raw_width = 0 /\ raw_height = 0 /\ raw_data = << >> /\ mask = << >>
    /\ header_data = << >> /\ file = << >>
    /\ encoded = NoEncoded /\ dec = NoDec /\ ret = NoRet
    /\ mask_width = 0 /\ mask_height = 0 /\ heap = {} /\ payload_bytes = NoPayload /\ ht_array = NoArray /\ assigning = NoAssign

\* the values that index the leaf array and the histogram inside their bounds
InSymbols(stream) == \A t \in 1 .. Len(stream) : stream[t] \in Symbols

\* CHuffmanEncodeArray(masked_data, masked_length).  No statement of it
\* compares a value with the alphabet: a value outside 0 .. NUM_CHARS-1 indexes
\* huffmanArray and hist outside their bounds, after which the call crashes or
\* runs on over corrupted memory
EncodeArray ==
    /\ pc = "stream"
    /\ IF InSymbols(masked_data)
       THEN /\ encoded' = CHuffmanEncodeArray(masked_data)
            /\ pc' = "encoded"
       ELSE /\ encoded' = NoEncoded
            /\ pc' \in {"crashed", "corrupted"}
    /\ UNCHANGED <<raw_width, raw_height, raw_data, mask, header_data, masked_data, file, dec, ret, mask_width, mask_height, heap, payload_bytes, ht_array, assigning>>

DecodeEncoded ==
    /\ pc = "encoded"
    /\ encoded.ok
    /\ dec' = DecodeArray(CodeLenTable(encoded.canonicalList), PayloadBytes(encoded))
    /\ pc' = "decoded"
    /\ UNCHANGED <<raw_width, raw_height, raw_data, mask, header_data, masked_data, encoded, file, ret, mask_width, mask_height, heap, payload_bytes, ht_array, assigning>>

NextCodec == EncodeArray \/ DecodeEncoded

SpecCodec == InitCodec /\ [][NextCodec]_vars

(***************************************************************************)
(* The codec on arbitrary int streams: every stream of at most MaxAnyLen   *)
(* values from one below the alphabet to one above it, the EOF index       *)
(* included.                                                               *)
(***************************************************************************)
AnyValues == -1 .. NUM_CHARS

InitAny ==
    /\ pc = "stream"
    /\ masked_data \in SeqsUpTo(AnyValues, MaxAnyLen)
    /\ raw_width = 0 /\ raw_height = 0 /\ raw_data = << >> /\ mask = << >>
    /\ header_data = << >> /\ file = << >>
    /\ encoded = NoEncoded /\ dec = NoDec /\ ret = NoRet
    /\ mask_width = 0 /\ mask_height = 0 /\ heap = {} /\ payload_bytes = NoPayload /\ ht_array = NoArray /\ assigning = NoAssign

SpecAny == InitAny /\ [][NextCodec]_vars

(***************************************************************************)
(* C stdio on a file that is a sequence of byte values; pos is the         *)
(* position of the next byte to read (1 is the first byte).                *)
(***************************************************************************)
Whitespace == {32, 9, 10, 11, 12, 13}    \* isspace: ' ', \t, \n, \v, \f, \r

DigitChars == 48 .. 57                     \* '0' .. '9'

Magic == <<115, 113, 100>>                 \* "sqd"

\* printf("%d") of a non-negative int
RECURSIVE FormatDigits(_)
FormatDigits(n) ==
    IF n < 10 THEN <<48 + n>> ELSE Append(FormatDigits(n \div 10), 48 + (n % 10))

\* printf("%d")
FormatInt(n) == IF n < 0 THEN <<45>> \o FormatDigits(0 - n) ELSE FormatDigits(n)

\* a white-space directive of scanf: skip any amount of white space
RECURSIVE SkipSpace(_, _)
SkipSpace(f, pos) ==
    IF pos <= Len(f) /\ f[pos] \in Whitespace THEN SkipSpace(f, pos + 1) ELSE pos

RECURSIVE ScanDigits(_, _, _)
ScanDigits(f, pos, acc) ==
    IF pos <= Len(f) /\ f[pos] \in DigitChars
    THEN ScanDigits(f, pos + 1, 10 * acc + (f[pos] - 48))
    ELSE [value |-> acc, pos |-> pos]

\* scanf("%d"): skip white space, an optional sign, then at least one digit.
\* assigned = FALSE: nothing was stored into the argument
ScanInt(f, pos) ==
    LET p0 == SkipSpace(f, pos)
        signed == p0 <= Len(f) /\ f[p0] \in {43, 45}
        p1 == IF signed THEN p0 + 1 ELSE p0
        num == ScanDigits(f, p1, 0)
    IN  IF num.pos = p1 THEN [assigned |-> FALSE, value |-> 0, pos |-> p0]
        ELSE [assigned |-> TRUE,
              value |-> IF signed /\ f[p0] = 45 THEN 0 - num.value ELSE num.value,
              pos |-> num.pos]

\* fgets(s, n, stream): at most n-1 characters, stopping after a newline.
\* stored = FALSE: end of file before any character, s is left as it was
RECURSIVE FgetsLoop(_, _, _, _)
FgetsLoop(f, pos, room, got) ==
    IF room = 0 \/ pos > Len(f) THEN [str |-> got, pos |-> pos]
    ELSE IF f[pos] = 10 THEN [str |-> Append(got, 10), pos |-> pos + 1]
    ELSE FgetsLoop(f, pos + 1, room - 1, Append(got, f[pos]))

fgets(f, pos, n) ==
    LET r == FgetsLoop(f, pos, n - 1, << >>)
    IN  [stored |-> ~(n > 1 /\ pos > Len(f)), str |-> r.str, pos |-> r.pos]

(***************************************************************************)
(* The container file (cSquish.c).                                         *)
(***************************************************************************)
RECURSIVE WriteTable(_, _)
WriteTable(canonicalList, i) ==
    IF i >= NUM_CHARS THEN << >>
    ELSE FormatInt(canonicalList[i].codeLen) \o <<32>> \o WriteTable(canonicalList, i + 1)

\* variant: height written before width
WriteSizes_swapped(header, width, height) ==
    FormatInt(Len(header)) \o <<32>> \o FormatInt(height) \o <<32>> \o FormatInt(width) \o <<32>>

\* fprintf(ofp, "%d %d %d ", strlen(header_data), raw_width, raw_height)
WriteSizes(header, width, height) ==
    FormatInt(Len(header)) \o <<32>> \o FormatInt(width) \o <<32>> \o FormatInt(height) \o <<32>>

\* "write header data": the magic, the three sizes, the text, the alphabet size
WriteHeader(header, width, height) ==
    Magic \o WriteSizes(header, width, height) \o header \o FormatInt(NUM_CHARS) \o <<32>>

\* variant: the byte count is followed by a newline instead of a space
WritePayload_newline(bytes) == FormatInt(Len(bytes)) \o <<10>> \o bytes

\* "write data": the byte count, a space, the bytes
WritePayload(bytes) == FormatInt(Len(bytes)) \o <<32>> \o bytes

\* what cSquish_compress writes between fopen and fclose
WriteSqd(header, width, height, enc) ==
    WriteHeader(header, width, height)
    \o WriteTable(enc.canonicalList, 0)
    \o WritePayload(PayloadBytes(enc))

\* openSqd after a successful fopen: fgets(id, 4, ifp) and strcmp(id, "sqd").
\* "indeterminate": nothing was read, id holds whatever the stack held
openSqd(f) ==
    LET id == fgets(f, 1, 4)
    IN  IF ~id.stored THEN "indeterminate"
        ELSE IF id.str = Magic THEN "open" ELSE "unrecognised"

\* fscanf(ifp, "%d %d %d ", ...) after fseek(ifp, 3, SEEK_SET)
ScanSizes(f) ==
    LET a == ScanInt(f, 4)
        b == ScanInt(f, SkipSpace(f, a.pos))
        c == ScanInt(f, SkipSpace(f, b.pos))
    IN  IF ~a.assigned THEN [assigned |-> 0, header_length |-> 0, image_width |-> 0,
                             image_height |-> 0, pos |-> a.pos]
        ELSE IF ~b.assigned THEN [assigned |-> 1, header_length |-> a.value, image_width |-> 0,
                                  image_height |-> 0, pos |-> b.pos]
        ELSE IF ~c.assigned THEN [assigned |-> 2, header_length |-> a.value,
                                  image_width |-> b.value, image_height |-> 0, pos |-> c.pos]
        ELSE [assigned |-> 3, header_length |-> a.value, image_width |-> b.value,
              image_height |-> c.value, pos |-> SkipSpace(f, c.pos)]

\* readSqdHeader.  sizes_assigned counts the conversions of the first fscanf
\* that stored a value; num_chars_assigned tells whether the last one did
readSqdHeader(f) ==
    LET sizes == ScanSizes(f)
        text == fgets(f, sizes.pos, sizes.header_length + 1)
        chars == ScanInt(f, text.pos)
    IN  [sizes_assigned |-> sizes.assigned,
         header_length |-> sizes.header_length,
         image_width |-> sizes.image_width,
         image_height |-> sizes.image_height,
         header_stored |-> text.stored,
         header_data |-> text.str,
         num_chars_assigned |-> chars.assigned,
         num_chars |-> chars.value,
         pos |-> chars.pos]

\* for (i < num_chars) fscanf(ifp, "%d ", &decode_table[i])
RECURSIVE ReadTable(_, _, _, _, _)
ReadTable(f, pos, i, num_chars, table) ==
    IF i >= num_chars THEN [assigned |-> TRUE, table |-> table, pos |-> pos]
    ELSE LET e == ScanInt(f, pos)
         IN  IF ~e.assigned THEN [assigned |-> FALSE, table |-> table, pos |-> e.pos]
             ELSE ReadTable(f, SkipSpace(f, e.pos), i + 1, num_chars, Append(table, e.value))

\* the table, the byte count and the bytes up to the end of the file
ReadPayload(f, pos, num_chars) ==
    LET t == ReadTable(f, pos, 0, num_chars, << >>)
        n == ScanInt(f, t.pos)
        start == SkipSpace(f, n.pos)
    IN  [assigned |-> t.assigned /\ n.assigned,
         decode_table |-> t.table,
         num_bytes |-> n.value,
         data |-> SubSeqFrom(f, start)]

(***************************************************************************)
(* cSquish_compress: the element count and the two backward scans.         *)
(***************************************************************************)
RawLength(width, height) ==
    IF width = 0 \/ height = 0 THEN width + height ELSE width * height

\* first scan: for (i = raw_length - 1; i >= 0; i--) if (mask[i] != 0) masked_length += 1
RECURSIVE CountMasked(_, _)
CountMasked(mask_mem, i) ==
    IF i < 1 THEN 0
    ELSE (IF mask_mem[i] # 0 THEN 1 ELSE 0) + CountMasked(mask_mem, i - 1)

\* second scan: masked_data[k] = raw_data[i]; k--   (element i of C is i+1 here)
RECURSIVE ApplyMask(_, _, _, _, _)
ApplyMask(raw_mem, mask_mem, i, k, masked) ==
    IF i < 1 THEN masked
    ELSE IF mask_mem[i] # 0
         THEN ApplyMask(raw_mem, mask_mem, i - 1, k - 1, [masked EXCEPT ![k + 1] = raw_mem[i]])
         ELSE ApplyMask(raw_mem, mask_mem, i - 1, k, masked)

MaskedData(raw_mem, mask_mem) ==
    LET masked_length == CountMasked(mask_mem, Len(mask_mem))
    IN  ApplyMask(raw_mem, mask_mem, Len(mask_mem), masked_length - 1,
                  Tuple([t \in 1 .. masked_length |-> 0], masked_length))

(***************************************************************************)
(* Inputs of the calls.                                                    *)
(***************************************************************************)
Min(a, b) == IF a < b THEN a ELSE b

Pixels == 0 .. Min(MaxPixel, NUM_CHARS - 2)

MaskValues == {0, 1}

\* values an uninitialised or out-of-bounds int may hold
UninitInts == {0, -1}

Shapes == {sh \in (0 .. MaxDim) \X (0 .. MaxDim) : sh[1] * sh[2] <= MaxCells}

Headers == { << >>,                \* ""
             <<97>>,               \* "a"
             <<32, 97>>,           \* " a"
             <<97, 10, 98>>,       \* "a\nb"
             <<55, 97>>,           \* "7a"
             <<97, 55>> }          \* "a7"

\* files that were not written by cSquish_compress and do not start with "sqd"
ForeignFiles == { << >>, <<115>>, <<115, 113>>, <<115, 113, 10, 100>>,
                  <<83, 81, 68, 49, 32>>, <<120, 115, 113, 100>> }

InRange(stream) == \A t \in 1 .. Len(stream) : stream[t] \in DataSymbols

\* what a call may do once its behaviour is undefined
UndefinedOutcomes ==
    {[kind |-> "crash"]} \cup {[kind |-> "array", value |-> v] : v \in SeqsUpTo(UninitInts, 1)}

UnrecognisedFormat == [kind |-> "error", exc |-> "IOError", msg |-> "Unrecognised file format"]

AssignFailed == [kind |-> "error", exc |-> "RuntimeError", msg |-> "Failed to assign the codes."]

(***************************************************************************)
(* The calls of the extension module.                                      *)
(***************************************************************************)
Init ==
    /\ pc = "idle"
    /\ raw_width = 0 /\ raw_height = 0 /\ raw_data = << >> /\ mask = << >>
    /\ header_data = << >> /\ masked_data = << >> /\ file = NoFile
    /\ encoded = NoEncoded /\ dec = NoDec /\ ret = NoRet
    /\ mask_width = 0 /\ mask_height = 0 /\ heap = {} /\ payload_bytes = NoPayload /\ ht_array = NoArray /\ assigning = NoAssign

ShapeMismatch ==
    [kind |-> "error", exc |-> "ValueError", msg |-> "Mask and Data arrays must have same shape"]

CannotOpen == [kind |-> "error", exc |-> "IOError", msg |-> "Cannot open file "]

\* what CHuffmanEncodeArray allocated and has not released when it returns:
\* on success nothing is released (the tree included); when the tree could not
\* be generated, the leaves and the canonical list stay allocated
LiveAfterEncode(enc) ==
    IF enc.ok THEN {"huffmanTree", "canonicalList", "code", "encoded_data", "result"}
    ELSE {"huffmanTree", "canonicalList"}

\* "free memory" at the end of cSquish_compress
FreedByCompress == {"canonicalList", "encoded_data", "result"}

\* variant: the output file is opened (created or truncated) before the shapes are compared
CompressMismatch_late(sh, msh, header) ==
    /\ raw_width' = sh[1] /\ raw_height' = sh[2]
    /\ mask_width' = msh[1] /\ mask_height' = msh[2]
    /\ header_data' = header
    /\ raw_data' = << >> /\ mask' = << >> /\ masked_data' = << >>
    /\ encoded' = NoEncoded /\ dec' = NoDec /\ heap' = {} /\ payload_bytes' = payload_bytes /\ ht_array' = ht_array /\ assigning' = assigning
    /\ file' = << >>
    /\ ret' = ShapeMismatch
    /\ pc' = "failed"

\* cSquish_compress up to and including the shape check, for arrays of different shapes
CompressMismatch(sh, msh, header) ==
    /\ raw_width' = sh[1] /\ raw_height' = sh[2]
    /\ mask_width' = msh[1] /\ mask_height' = msh[2]
    /\ header_data' = header
    /\ raw_data' = << >> /\ mask' = << >> /\ masked_data' = << >>
    /\ encoded' = NoEncoded /\ dec' = NoDec /\ heap' = {} /\ payload_bytes' = payload_bytes /\ ht_array' = ht_array /\ assigning' = assigning
    /\ file' = file
    /\ ret' = ShapeMismatch
    /\ pc' = "failed"

\* cSquish_compress for data d and mask m of one shape sh; gd and gm are what
\* lies behind the arrays where the scans read beyond them (a zero dimension),
\* opened tells whether fopen succeeds
Compress(sh, header, d, m, gd, gm, opened) ==
    /\ raw_width' = sh[1] /\ raw_height' = sh[2]
    /\ mask_width' = sh[1] /\ mask_height' = sh[2]
    /\ header_data' = header
    /\ raw_data' = d /\ mask' = m
    /\ dec' = NoDec /\ payload_bytes' = payload_bytes /\ ht_array' = ht_array /\ assigning' = assigning
    /\ \E stream \in {MaskedData(d \o gd, m \o gm)} :
         /\ masked_data' = stream
         /\ IF ~InRange(stream)
            THEN \* the leaf array is indexed with a value outside the alphabet
                 /\ encoded' = NoEncoded /\ heap' = {} /\ file' = file
                 /\ ret' = [kind |-> "crash"]
                 /\ pc' = "crashed"
            ELSE \E enc \in {CHuffmanEncodeArray(stream)} :
                   IF ~opened
                   THEN /\ encoded' = enc /\ heap' = LiveAfterEncode(enc) /\ file' = file
                        /\ ret' = CannotOpen
                        /\ pc' = "failed"
                   ELSE IF ~enc.ok
                   THEN \* the file is open and the header is in the stream's buffer
                        \* when the null encoded_data is dereferenced
                        /\ encoded' = enc /\ heap' = LiveAfterEncode(enc)
                        /\ file' \in {<< >>, WriteHeader(header, sh[1], sh[2])}
                        /\ ret' = [kind |-> "crash"]
                        /\ pc' = "crashed"
                   ELSE /\ encoded' = enc
                        /\ heap' = LiveAfterEncode(enc) \ FreedByCompress
                        /\ file' = WriteSqd(header, sh[1], sh[2], enc)
                        /\ ret' = [kind |-> "None"]
                        /\ pc' = "compressed"

\* cSquish.compress(data, mask, header, filename).
\* With a zero dimension the scans read raw_length elements of empty arrays.
cSquish_compress ==
    /\ pc = "idle"
    /\ \E sh \in Shapes, msh \in Shapes, header \in Headers :
         IF sh # msh THEN CompressMismatch(sh, msh, header)
         ELSE \E d \in [1 .. (sh[1] * sh[2]) -> Pixels], m \in [1 .. (sh[1] * sh[2]) -> MaskValues],
                 gd \in [1 .. (RawLength(sh[1], sh[2]) - sh[1] * sh[2]) -> UninitInts],
                 gm \in [1 .. (RawLength(sh[1], sh[2]) - sh[1] * sh[2]) -> MaskValues],
                 opened \in BOOLEAN :
                Compress(sh, header, d, m, gd, gm, opened)

\* the same call on a one-row array, long enough for a count to reach COUNT_T_MAX
cSquish_compress_long ==
    /\ pc = "idle"
    /\ \E n \in 1 .. (COUNT_T_MAX + 1), opened \in BOOLEAN :
         \E d \in [1 .. n -> Pixels] :
           Compress(<<1, n>>, << >>, d, Tuple([t \in 1 .. n |-> 1], n), << >>, << >>, opened)

SpecCount == Init /\ [][cSquish_compress_long]_vars

(***************************************************************************)
(* The payload alone: the writing loop of cSquish_compress and the reading *)
(* loop of cSquish_decompress, on byte sequences of every kind.            *)
(***************************************************************************)
\* byte values of the packed bits: zero, line feed, space, a digit, all ones
PayloadByteValues == {0, 10, 32, 49, 255}

InitPayload ==
    /\ pc = "bytes"
    /\ \E b \in SeqsUpTo(PayloadByteValues, MaxPayload) :
         payload_bytes = [written |-> b, num_bytes |-> 0, data |-> << >>]
    /\ raw_width = 0 /\ raw_height = 0 /\ raw_data = << >> /\ mask = << >>
    /\ header_data = << >> /\ masked_data = << >> /\ file = << >>
    /\ encoded = NoEncoded /\ dec = NoDec /\ ret = NoRet
    /\ mask_width = 0 /\ mask_height = 0 /\ heap = {} /\ ht_array = NoArray /\ assigning = NoAssign

\* "write encoded data": the byte count, a space, the bytes
WritePayloadBytes ==
    /\ pc = "bytes"
    /\ file' = WritePayload(payload_bytes.written)
    /\ pc' = "written"
    /\ UNCHANGED <<raw_width, raw_height, raw_data, mask, header_data, masked_data, encoded, dec, ret, mask_width, mask_height, heap, payload_bytes, ht_array, assigning>>

\* fscanf(ifp, "%d ", &num_bytes) and the loop that stores a byte per "%c"
ReadPayloadBytes ==
    /\ pc = "written"
    /\ \E p \in {ReadPayload(file, 1, 0)} :
         payload_bytes' = [payload_bytes EXCEPT !.num_bytes = p.num_bytes, !.data = p.data]
    /\ pc' = "read"
    /\ UNCHANGED <<raw_width, raw_height, raw_data, mask, header_data, masked_data, encoded, file, dec, ret, mask_width, mask_height, heap, ht_array, assigning>>

NextPayload == WritePayloadBytes \/ ReadPayloadBytes

SpecPayload == InitPayload /\ [][NextPayload]_vars

(***************************************************************************)
(* The decode loop of cSquish_decompress turn by turn, on the table and    *)
(* payload of an encoded stream and on the payload without its last byte.  *)
(***************************************************************************)
\* "decode input file": length = 0, code cleared, decodedEOF = FALSE, j = 0, k = 0
DecodeStart(decode_table, data) ==
    LET canonicalList == ReplayCanonicalList(decode_table)
    IN  [canonicalList |-> canonicalList, lenIndex |-> LenIndex(canonicalList, NUM_CHARS),
         data |-> data, status |-> "none", j |-> 0, k |-> 0, decoded |-> << >>,
         length |-> 0, code |-> BitArrayClearAll(BitArrayCreate(NUM_CHARS - 1)),
         decodedEOF |-> FALSE, matched |-> NONE, tested |-> {}]

InitDecode ==
    /\ pc = "decoding"
    /\ masked_data \in SeqsUpTo(DataSymbols, MaxLen)
    /\ encoded = CHuffmanEncodeArray(masked_data)
    /\ \E cut \in {0, 1} :
         dec = DecodeStart(CodeLenTable(encoded.canonicalList),
                           SubSeq(PayloadBytes(encoded), 1, Len(PayloadBytes(encoded)) - cut))
    /\ raw_width = 0 /\ raw_height = 0 /\ raw_data = << >> /\ mask = << >>
    /\ header_data = << >> /\ file = << >> /\ ret = NoRet
    /\ mask_width = 0 /\ mask_height = 0 /\ heap = {} /\ payload_bytes = NoPayload /\ ht_array = NoArray /\ assigning = NoAssign

\* one turn of the loop.  Testing bit j at or beyond numBits reads beyond the
\* payload, and indexing lenIndex at num_chars or beyond reads beyond the
\* index: the behaviour is undefined from there on
DecodeStep ==
    /\ pc = "decoding"
    /\ ~dec.decodedEOF
    /\ IF dec.j >= CHAR_BIT * Len(dec.data)
       THEN dec' = [dec EXCEPT !.status = "exhausted"] /\ pc' = "undefined"
       ELSE IF dec.length + 1 >= NUM_CHARS
       THEN dec' = [dec EXCEPT !.status = "index"] /\ pc' = "undefined"
       ELSE \E turn \in {DecodeTurn(dec, NUM_CHARS)} :
              IF turn.decodedEOF
              THEN dec' = [turn EXCEPT !.status = "eof"] /\ pc' = "done"
              ELSE dec' = turn /\ pc' = "decoding"
    /\ UNCHANGED <<raw_width, raw_height, raw_data, mask, header_data, masked_data, encoded, file, ret, mask_width, mask_height, heap, payload_bytes, ht_array, assigning>>

SpecDecode == InitDecode /\ [][DecodeStep]_vars

(***************************************************************************)
(* AssignCanonicalCodes turn by turn, on the sorted list of code lengths   *)
(* of the tree built for a stream.                                         *)
(***************************************************************************)
InitAssign ==
    /\ pc = "assigning"
    /\ masked_data \in SeqsUpTo(DataSymbols, MaxLen)
    /\ \E tree \in {GenerateTreeFromArray(masked_data)} :
       \E cl \in {qsort(FillCodeLengths(tree.nodes, tree.root, 0, InitialList, << >>).cl,
                         NUM_CHARS, "CompareByCodeLen")} :
         assigning = [NoAssign EXCEPT !.cl = cl, !.i = NUM_CHARS - 1,
                         !.code = BitArrayClearAll(BitArrayCreate(NUM_CHARS - 1)),
                         !.length = cl[NUM_CHARS - 1].codeLen % BYTE_T_MOD]
    /\ raw_width = 0 /\ raw_height = 0 /\ raw_data = << >> /\ mask = << >>
    /\ header_data = << >> /\ file = << >> /\ ret = NoRet
    /\ encoded = NoEncoded /\ dec = NoDec
    /\ mask_width = 0 /\ mask_height = 0 /\ heap = {} /\ payload_bytes = NoPayload /\ ht_array = NoArray

\* one turn of the for loop: codeLen is the length of the entry assigned, value
\* the running code given to it, shifts and dropped the number and the value of
\* the bits the right shift removed, carried whether the increment wrapped
AssignStep ==
    /\ pc = "assigning"
    /\ IF assigning.i < 0 \/ assigning.cl[assigning.i].codeLen = 0
       THEN pc' = "assigned" /\ assigning' = assigning
       ELSE \E codeLen \in {assigning.cl[assigning.i].codeLen} :
            \E code1 \in {AdjustCode(assigning.code, assigning.length, codeLen)} :
            \E length1 \in {IF codeLen < assigning.length THEN codeLen % BYTE_T_MOD
                             ELSE assigning.length} :
              /\ assigning' =
                    [cl |-> [assigning.cl EXCEPT ![assigning.i].code =
                                BitArrayShiftLeft(BitArrayDuplicate(code1),
                                                  NUM_CHARS - 1 - length1)],
                     i |-> assigning.i - 1,
                     code |-> BitArrayIncrement(code1),
                     length |-> length1,
                     codeLen |-> codeLen,
                     value |-> BitsValue(code1, NUM_CHARS - 1),
                     shifts |-> IF codeLen < assigning.length
                                THEN assigning.length - codeLen ELSE 0,
                     dropped |-> IF codeLen < assigning.length
                                 THEN BitsValue(assigning.code, NUM_CHARS - 1)
                                         % Pow2(assigning.length - codeLen)
                                 ELSE 0,
                     carried |-> \A b \in 1 .. Len(code1) : code1[b] = 1]
              /\ pc' = "assigning"
    /\ UNCHANGED <<raw_width, raw_height, raw_data, mask, header_data, masked_data, encoded, file, dec, ret, mask_width, mask_height, heap, payload_bytes, ht_array>>

SpecAssign == InitAssign /\ [][AssignStep]_vars

(***************************************************************************)
(* FindMinimumCount alone, on arrays of every kind: entries that are NULL, *)
(* ignored or active, with equal and unequal counts and levels.            *)
(***************************************************************************)
\* the nodes an array entry may point to
SearchedNodes ==
    {[AllocHuffmanNode(COMPOSITE_NODE) EXCEPT !.count = c, !.level = l, !.ignore = g] :
        c \in 0 .. 2, l \in 0 .. 1, g \in BOOLEAN}

InitMin ==
    /\ pc = "array"
    /\ \E elements \in 1 .. MaxElements :
       \E nodes \in [1 .. elements -> SearchedNodes], present \in [1 .. elements -> BOOLEAN] :
         ht_array = [nodes |-> Tuple(nodes, elements),
                     ht |-> Array([i \in 0 .. (elements - 1) |->
                                      IF present[i + 1] THEN i + 1 ELSE NULL], elements),
                     elements |-> elements, min |-> NONE]
    /\ raw_width = 0 /\ raw_height = 0 /\ raw_data = << >> /\ mask = << >>
    /\ header_data = << >> /\ masked_data = << >> /\ file = << >>
    /\ encoded = NoEncoded /\ dec = NoDec /\ ret = NoRet
    /\ mask_width = 0 /\ mask_height = 0 /\ heap = {} /\ payload_bytes = NoPayload /\ assigning = NoAssign

\* min = FindMinimumCount(ht, elements)
FindMinimum ==
    /\ pc = "array"
    /\ ht_array' = [ht_array EXCEPT
                       !.min = FindMinimumCount(ht_array.nodes, ht_array.ht, ht_array.elements)]
    /\ pc' = "searched"
    /\ UNCHANGED <<raw_width, raw_height, raw_data, mask, header_data, masked_data, encoded, file, dec, ret, mask_width, mask_height, heap, payload_bytes, assigning>>

SpecMin == InitMin /\ [][FindMinimum]_vars

\* some other program wrote the file
ForeignFile ==
    /\ pc = "idle"
    /\ file' \in ForeignFiles
    /\ pc' = "foreign"
    /\ UNCHANGED <<raw_width, raw_height, raw_data, mask, header_data, masked_data, encoded, dec, ret, mask_width, mask_height, heap, payload_bytes, ht_array, assigning>>

\* containers of a 1 x 1 image that cSquish_compress did not write: the table
\* of the stream <<0>> followed by no payload byte and by a byte of one bits
\* (neither holds the EOF codeword), and a table of zero lengths only
CraftedFiles ==
    LET table == WriteTable(CHuffmanEncodeArray(<<0>>).canonicalList, 0)
    IN  { WriteHeader(<< >>, 1, 1) \o table \o WritePayload(<< >>),
          WriteHeader(<< >>, 1, 1) \o table \o WritePayload(<<255>>),
          WriteHeader(<< >>, 1, 1) \o WriteTable(InitialList, 0) \o WritePayload(<<0>>) }

\* a container file that was damaged or written by another program
CraftedFile ==
    /\ pc = "idle"
    /\ file' \in CraftedFiles
    /\ pc' = "crafted"
    /\ UNCHANGED <<raw_width, raw_height, raw_data, mask, header_data, masked_data, encoded, dec, ret, mask_width, mask_height, heap, payload_bytes, ht_array, assigning>>

HasFile == pc \in {"compressed", "foreign", "crafted"}

\* the ways openSqd may come back: an uninitialised id may or may not hold "sqd"
Opened(f) ==
    IF openSqd(f) = "indeterminate" THEN {TRUE, FALSE} ELSE {openSqd(f) = "open"}

cSquish_isSqd ==
    /\ HasFile
    /\ \E ifp \in Opened(file) : ret' = [kind |-> "bool", value |-> ifp]
    /\ pc' = "isSqd"
    /\ UNCHANGED <<raw_width, raw_height, raw_data, mask, header_data, masked_data, encoded, file, dec, mask_width, mask_height, heap, payload_bytes, ht_array, assigning>>

cSquish_getSize ==
    /\ HasFile
    /\ \E ifp \in Opened(file) :
         IF ~ifp THEN ret' = UnrecognisedFormat
         ELSE \E header \in {readSqdHeader(file)} :
                  IF header.sizes_assigned = 3
                  THEN ret' = [kind |-> "tuple",
                               value |-> <<header.image_width, header.image_height>>]
                  ELSE ret' \in UndefinedOutcomes
    /\ pc' = "getSize"
    /\ UNCHANGED <<raw_width, raw_height, raw_data, mask, header_data, masked_data, encoded, file, dec, mask_width, mask_height, heap, payload_bytes, ht_array, assigning>>

\* the returned string and, for reference, the num_chars field of the header read
cSquish_getHeader ==
    /\ HasFile
    /\ \E ifp \in Opened(file) :
         IF ~ifp THEN ret' = UnrecognisedFormat
         ELSE \E header \in {readSqdHeader(file)} :
                  IF header.sizes_assigned = 3 /\ header.header_stored
                  THEN \E g \in UninitInts :
                         ret' = [kind |-> "string", value |-> header.header_data,
                                 num_chars |-> IF header.num_chars_assigned
                                               THEN header.num_chars ELSE g]
                  ELSE ret' \in UndefinedOutcomes
    /\ pc' = "getHeader"
    /\ UNCHANGED <<raw_width, raw_height, raw_data, mask, header_data, masked_data, encoded, file, dec, mask_width, mask_height, heap, payload_bytes, ht_array, assigning>>

\* cSquish_decompress.  The behaviour is defined when every fscanf stored its
\* value, the lists of NUM_CHARS entries that AssignCanonicalCodes indexes
\* exist (num_chars = NUM_CHARS), the bytes read fill data exactly, the decode
\* loop meets EOF inside the payload and k stays within decoded_data.
cSquish_decompress ==
    /\ HasFile
    /\ \E ifp \in Opened(file) :
         IF ~ifp THEN ret' = UnrecognisedFormat /\ dec' = dec
         ELSE \E header \in {readSqdHeader(file)} :
              \E payload \in {ReadPayload(file, header.pos, header.num_chars)} :
                IF ~(/\ header.sizes_assigned = 3
                     /\ header.num_chars_assigned
                     /\ header.num_chars = NUM_CHARS
                     /\ payload.assigned
                     /\ Len(payload.data) = payload.num_bytes
                     /\ \A i \in 1 .. Len(payload.decode_table) :
                           payload.decode_table[i] \in 0 .. (NUM_CHARS - 1))
                THEN ret' \in UndefinedOutcomes /\ dec' = dec
                ELSE IF ~AssignCanonicalCodesReturned(payload.decode_table)
                THEN ret' = AssignFailed /\ dec' = dec
                ELSE \E run \in {DecodeArray(Array([i \in Symbols |-> payload.decode_table[i + 1]],
                                                   NUM_CHARS),
                                             payload.data)},
                        raw_length \in {RawLength(header.image_width, header.image_height)} :
                       /\ dec' = run
                       /\ IF run.status = "eof" /\ run.k <= raw_length
                          THEN \E tail \in [1 .. (raw_length - run.k) -> UninitInts] :
                                 ret' = [kind |-> "array", value |-> run.decoded \o tail]
                          ELSE ret' \in UndefinedOutcomes
    /\ pc' = "decompress"
    /\ UNCHANGED <<raw_width, raw_height, raw_data, mask, header_data, masked_data, encoded, file, mask_width, mask_height, heap, payload_bytes, ht_array, assigning>>

Next ==
    \/ cSquish_compress
    \/ ForeignFile
    \/ CraftedFile
    \/ cSquish_isSqd
    \/ cSquish_getSize
    \/ cSquish_getHeader
    \/ cSquish_decompress

Spec == Init /\ [][Next]_vars

(***************************************************************************)
(* Properties.                                                             *)
(***************************************************************************)
\* the file on disk was written by cSquish_compress in this behaviour
Written == encoded.ok /\ pc \in {"compressed", "isSqd", "getSize", "getHeader", "decompress"}

\* the data values at the mask-nonzero positions, in ascending flat index order
RECURSIVE Restrict(_, _, _)
Restrict(d, m, i) ==
    IF i > Len(d) THEN << >>
    ELSE (IF m[i] # 0 THEN <<d[i]>> ELSE << >>) \o Restrict(d, m, i + 1)

Coded(cl) == {c \in Symbols : cl[c].codeLen > 0}

\* the codeword of symbol c: the first codeLen bits of its left-justified code
Codeword(cl, c) == SubSeq(cl[c].code, 1, cl[c].codeLen)

IsPrefix(u, v) == Len(u) <= Len(v) /\ SubSeq(v, 1, Len(u)) = u

Used(stream) == {c \in Symbols : c = EOF_CHAR \/ \E t \in 1 .. Len(stream) : stream[t] = c}

Occurrences(stream, c) ==
    IF c = EOF_CHAR THEN 1 ELSE Cardinality({t \in 1 .. Len(stream) : stream[t] = c})

\* C1: decompress of the file written by compress returns a flat sequence
\* whose decoded elements (the k elements the decode loop wrote, which lead the
\* sequence) are exactly the data values at the mask-nonzero positions, in
\* ascending flat index order
C1_RoundTrip ==
    (Written /\ pc = "decompress")
        => /\ ret.kind = "array"
           /\ dec.status = "eof"
           /\ dec.decoded = Restrict(raw_data, mask, 1)
           /\ dec.k <= Len(ret.value)
           /\ SubSeq(ret.value, 1, dec.k) = dec.decoded

\* C2: getHeader on the written file returns exactly the header text passed to
\* compress, and the alphabet size read after it is NUM_CHARS
C2_HeaderRoundTrip ==
    (Written /\ pc = "getHeader")
        => (ret.kind = "string" /\ ret.value = header_data /\ ret.num_chars = NUM_CHARS)

\* C3: getSize on the written file returns exactly (width, height), whatever
\* the header text is
C3_SizeRoundTrip ==
    (Written /\ pc = "getSize")
        => (ret.kind = "tuple" /\ ret.value = <<raw_width, raw_height>>)

\* C3 witness: a size read back behind a header text that starts with a space
C3_Witness ==
    /\ Written /\ pc = "getSize"
    /\ header_data = <<32, 97>>
    /\ raw_width = 2 /\ raw_height = 1
    /\ ret.kind = "tuple" /\ ret.value = <<2, 1>>

\* C4: with an all-zero mask the payload is the EOF codeword only (one bit in
\* one byte) and decompress returns an empty sequence
C4_AllZeroMask ==
    (Written /\ Len(mask) >= 1 /\ \A i \in 1 .. Len(mask) : mask[i] = 0)
        => /\ encoded.size = 1
           /\ encoded.size = encoded.canonicalList[EOF_CHAR].codeLen
           /\ Len(PayloadBytes(encoded)) = 1
           /\ pc = "decompress" => (ret.kind = "array" /\ ret.value = << >>)

C6_FormatRejection ==
    (pc \in {"isSqd", "decompress"} /\ (Len(file) < 3 \/ SubSeq(file, 1, 3) # Magic))
        => /\ pc = "isSqd" => ret = [kind |-> "bool", value |-> FALSE]
           /\ pc = "decompress" => (ret = UnrecognisedFormat /\ dec = NoDec)

\* C7: the codewords of the symbols with nonzero code length form a prefix
\* code: none is a prefix of (or equal to) another
C7_PrefixFree ==
    (pc \in {"encoded", "decoded"})
        => \A a \in Coded(encoded.canonicalList), b \in Coded(encoded.canonicalList) :
              a # b => ~IsPrefix(Codeword(encoded.canonicalList, a),
                                 Codeword(encoded.canonicalList, b))

\* C7 witness: a code with codewords of two different lengths
C7_Witness ==
    /\ pc = "encoded"
    /\ \E a \in Coded(encoded.canonicalList), b \in Coded(encoded.canonicalList) :
          encoded.canonicalList[a].codeLen < encoded.canonicalList[b].codeLen

\* C8: the list the decoder builds from the code-length table alone gives every
\* symbol the codeword bits and length the encoder gave it
C8_ReplaySameCodes ==
    (pc = "decoded")
        => /\ {dec.canonicalList[i].value : i \in Symbols} = Symbols
           /\ \A i \in Symbols :
                LET e == dec.canonicalList[i]
                IN  /\ encoded.canonicalList[e.value].value = e.value
                    /\ encoded.canonicalList[e.value].codeLen = e.codeLen
                    /\ encoded.canonicalList[e.value].code = e.code

\* C8 witness: a replay in which three symbols or more carry a code
C8_Witness ==
    /\ pc = "decoded"
    /\ Cardinality({i \in Symbols : dec.canonicalList[i].code # NULL_CODE}) >= 3
    /\ \E i \in Symbols : dec.canonicalList[i].value # i

\* two symbols of one nonzero code length with no symbol of that length between them
Neighbours(cl, a, b) ==
    /\ a \in Coded(cl) /\ b \in Coded(cl) /\ a < b
    /\ cl[a].codeLen = cl[b].codeLen
    /\ \A c \in Coded(cl) : (a < c /\ c < b) => cl[c].codeLen # cl[a].codeLen

CodeValue(cl, c) == BitsValue(cl[c].code, cl[c].codeLen)

\* C9 as stated: in ascending symbol order the codewords of one length are
\* consecutive integers, each the previous one plus 1
C9_AscendingConsecutive ==
    (pc \in {"encoded", "decoded"})
        => \A a \in Symbols, b \in Symbols :
              Neighbours(encoded.canonicalList, a, b)
                  => CodeValue(encoded.canonicalList, b) = CodeValue(encoded.canonicalList, a) + 1

\* C9 amended: in ascending symbol order the codewords of one length are
\* consecutive integers, each the previous one minus 1
C9_DescendingConsecutive ==
    (pc \in {"encoded", "decoded"})
        => \A a \in Symbols, b \in Symbols :
              Neighbours(encoded.canonicalList, a, b)
                  => CodeValue(encoded.canonicalList, b) = CodeValue(encoded.canonicalList, a) - 1

\* C9 witness: three symbols of one code length
C9_Witness ==
    /\ pc = "encoded"
    /\ \E a \in Symbols, b \in Symbols, c \in Symbols :
          /\ Neighbours(encoded.canonicalList, a, b)
          /\ Neighbours(encoded.canonicalList, b, c)

\* how often each symbol is encoded: the histogram, and EOF once
Counts(stream) == Array([c \in Symbols |-> IF c \in Used(stream) THEN Occurrences(stream, c) ELSE 0],
                        NUM_CHARS)

\* total encoded length under code lengths len (len is read for counted symbols only)
Cost(counts, len) ==
    SumTo([c \in Symbols |-> IF counts[c] = 0 THEN 0 ELSE counts[c] * len[c]], NUM_CHARS - 1)

\* Kraft's inequality, scaled by 2^(NUM_CHARS - 1)
Kraft(counts, len) ==
    SumTo([c \in Symbols |-> IF counts[c] = 0 THEN 0 ELSE Pow2(NUM_CHARS - 1 - len[c])],
          NUM_CHARS - 1) <= Pow2(NUM_CHARS - 1)

\* the longest codeword worth considering for n symbols: a prefix code with a
\* longer one can be shortened without raising the cost
LongestUseful(n) == IF n <= 2 THEN 1 ELSE n - 1

\* the code length assignments of the prefix codes for the counted symbols
PrefixCodeLengths(counts) ==
    LET counted == {c \in Symbols : counts[c] # 0}
    IN  {len \in [counted -> 1 .. LongestUseful(Cardinality(counted))] : Kraft(counts, len)}

\* C10: the code lengths taken from the tree minimise the total encoded length
\* among all prefix codes for the used symbols
C10_Optimal ==
    (pc = "encoded")
        => LET counts == Counts(masked_data)
               huffman == Cost(counts, CodeLenTable(encoded.canonicalList))
           IN  \A len \in PrefixCodeLengths(counts) : huffman <= Cost(counts, len)

\* C10 witness: a tree of three merges or more over unequal counts
C10_Witness ==
    /\ pc = "encoded"
    /\ encoded.tree.merges >= 3
    /\ \E a \in Used(masked_data), b \in Used(masked_data) :
          Occurrences(masked_data, a) > Occurrences(masked_data, b) + 1

\* C11: a compress call on a data and a mask array that differ in width or
\* height returns the ValueError of the shape check, leaves the output file as
\* it was (not opened, created, truncated or written) and has not run the encoder
C11_ShapeValidation ==
    [][(pc = "idle" /\ (raw_width' # mask_width' \/ raw_height' # mask_height'))
          => /\ ret' = ShapeMismatch
             /\ file' = file
             /\ encoded' = NoEncoded /\ masked_data' = << >> /\ heap' = {}]_vars

\* C11 witness: a call with arrays of different shapes has come back
C11_Witness ==
    /\ pc = "failed" /\ ret = ShapeMismatch
    /\ raw_width = mask_width /\ raw_height # mask_height
    /\ file = NoFile

\* C12: when a value of the stream lies outside the data symbols (negative,
\* above the alphabet, or the EOF index itself), the encoder returns failure
\* and has neither counted the value nor indexed its tables with it
C12_RangeCheck ==
    (pc # "stream" /\ \E t \in 1 .. Len(masked_data) : masked_data[t] \notin DataSymbols)
        => (pc = "encoded" /\ ~encoded.ok)

FilePayload == ReadPayload(file, readSqdHeader(file).pos, NUM_CHARS)

\* C14: when the payload bits run out before the EOF symbol was decoded, the
\* decode loop stops and cSquish_decompress reports an error; it never goes on
\* to test a bit at an index of numBits or more
C14_MalformedStream ==
    (pc = "decompress" /\ dec.status = "exhausted")
        => (ret.kind = "error" /\ dec.j < CHAR_BIT * Len(FilePayload.data))

\* C15: when every code length of the table is zero, cSquish_decompress reports
\* the RuntimeError of a failed code assignment and does not enter the decode loop
C15_InconsistentTable ==
    (pc = "decompress" /\ openSqd(file) = "open"
       /\ Len(FilePayload.decode_table) = NUM_CHARS
       /\ \A i \in 1 .. NUM_CHARS : FilePayload.decode_table[i] = 0)
        => (ret = AssignFailed /\ dec.status = "none")

\* C16: decoding a container written by cSquish_compress never emits more
\* symbols than width * height of the array that was compressed
C16_OutputBound ==
    (Written /\ pc = "decompress" /\ dec.status # "none")
        => dec.k <= raw_width * raw_height

\* C17: when cSquish_compress has returned, with its result or with an error,
\* nothing that the call allocated for the tree, the canonical list, the codes
\* or the encoded bits is still allocated
C17_ResourceRelease ==
    (pc \in {"compressed", "failed"}) => heap = {}

C19_PayloadBytes ==
    (pc = "read")
        => /\ payload_bytes.num_bytes = Len(payload_bytes.written)
           /\ Len(payload_bytes.data) <= payload_bytes.num_bytes
           /\ payload_bytes.data = payload_bytes.written

\* C20: after the two scans of cSquish_compress the masked stream has one value
\* per nonzero element of the mask array, and its t-th value is the data value
\* at the t-th nonzero mask position in ascending flat index order
C20_MaskOrder ==
    (pc \in {"compressed", "failed", "crashed"} /\ ret # ShapeMismatch)
        => /\ Len(masked_data) = Cardinality({i \in 1 .. Len(mask) : mask[i] # 0})
           /\ masked_data = Restrict(raw_data, mask, 1)

\* the codewords of the values of a stream from position i on, one after another
RECURSIVE ConcatCodes(_, _, _)
ConcatCodes(cl, stream, i) ==
    IF i > Len(stream) THEN << >>
    ELSE Codeword(cl, stream[i]) \o ConcatCodes(cl, stream, i + 1)

ActiveEntries ==
    {i \in 0 .. (ht_array.elements - 1) :
        ht_array.ht[i] # NULL /\ ~ht_array.nodes[ht_array.ht[i]].ignore}

\* C22: FindMinimumCount returns NONE exactly when no entry is active, and
\* otherwise the index of an active entry that no other active entry beats by
\* a smaller count or, at the same count, a smaller level
C22_MinimumSelection ==
    (pc = "searched")
        => /\ (ht_array.min = NONE) <=> (ActiveEntries = {})
           /\ ht_array.min # NONE =>
                 /\ ht_array.min \in ActiveEntries
                 /\ \A m \in ActiveEntries :
                       LET r == ht_array.nodes[ht_array.ht[ht_array.min]]
                           o == ht_array.nodes[ht_array.ht[m]]
                       IN  \/ r.count < o.count
                           \/ (r.count = o.count /\ r.level <= o.level)

\* the entry returned follows an active entry of the same count and a greater
\* level, next to a NULL entry and an ignored one
C22_Witness ==
    /\ pc = "searched" /\ ht_array.min # NONE
    /\ \E m \in ActiveEntries :
         /\ m < ht_array.min
         /\ ht_array.nodes[ht_array.ht[m]].count = ht_array.nodes[ht_array.ht[ht_array.min]].count
         /\ ht_array.nodes[ht_array.ht[m]].level > ht_array.nodes[ht_array.ht[ht_array.min]].level
    /\ \E i \in 0 .. (ht_array.elements - 1) : ht_array.ht[i] = NULL

\* the node reached from node n by following the parent pointers to their end
RECURSIVE Top(_, _)
Top(nodes, n) == IF nodes[n].parent = NULL THEN n ELSE Top(nodes, nodes[n].parent)

\* C23: the tree build ends after one merge less than there are active leaves,
\* not through the exit taken when no node is active, with a root that has no
\* parent, lies above every leaf of nonzero count and counts the whole stream
\* and the EOF
C23_SingleRoot ==
    (pc \in {"encoded", "decoded"})
        => /\ encoded.ok
           /\ ~encoded.tree.indexedNone
           /\ encoded.tree.root # NULL
           /\ encoded.tree.merges = Cardinality(Used(masked_data)) - 1
           /\ encoded.tree.nodes[encoded.tree.root].parent = NULL
           /\ encoded.tree.nodes[encoded.tree.root].count = Len(masked_data) + 1
           /\ \A c \in Symbols :
                 encoded.tree.nodes[c + 1].count > 0
                    => Top(encoded.tree.nodes, c + 1) = encoded.tree.root

\* a tree over every symbol of the alphabet: its root is a composite node two
\* or more levels above some leaf
C23_Witness ==
    /\ pc = "encoded" /\ encoded.ok
    /\ Used(masked_data) = Symbols
    /\ encoded.tree.merges = NUM_CHARS - 1
    /\ encoded.tree.nodes[encoded.tree.root].value = COMPOSITE_NODE
    /\ encoded.tree.nodes[encoded.tree.root].level >= 2
    /\ encoded.tree.nodes[encoded.tree.root].count = Len(masked_data) + 1

\* the number of edges from node n up to the end of its parent pointers
RECURSIVE Depth(_, _)
Depth(nodes, n) == IF nodes[n].parent = NULL THEN 0 ELSE 1 + Depth(nodes, nodes[n].parent)

\* the symbols whose leaves hang below the root of the tree built
TreeLeaves == {c \in Symbols : Top(encoded.tree.nodes, c + 1) = encoded.tree.root}

\* C24: the traversal enters every leaf of the tree exactly once and records
\* the leaf's depth as its code length, or 1 when the root is itself the leaf
C24_DepthExtraction ==
    (pc \in {"encoded", "decoded"} /\ encoded.ok)
        => /\ {encoded.visits[v] : v \in 1 .. Len(encoded.visits)} = TreeLeaves
           /\ Len(encoded.visits) = Cardinality(TreeLeaves)
           /\ \A c \in TreeLeaves :
                 encoded.canonicalList[c].codeLen =
                    IF encoded.tree.root = c + 1 THEN 1
                    ELSE Depth(encoded.tree.nodes, c + 1)

\* a tree whose leaves lie at depths 1, 2 and 3 was traversed
C24_Witness ==
    /\ pc = "encoded" /\ encoded.ok
    /\ Len(encoded.visits) = NUM_CHARS
    /\ \E a \in TreeLeaves, b \in TreeLeaves, c \in TreeLeaves :
         /\ Depth(encoded.tree.nodes, a + 1) = 1 /\ encoded.canonicalList[a].codeLen = 1
         /\ Depth(encoded.tree.nodes, b + 1) = 2 /\ encoded.canonicalList[b].codeLen = 2
         /\ Depth(encoded.tree.nodes, c + 1) = 3 /\ encoded.canonicalList[c].codeLen = 3

\* C25 as stated: every symbol of the alphabet, also one that never occurs in
\* the stream, is a leaf of the tree built and gets a nonzero code length
C25_ZeroCountInTree ==
    (pc \in {"encoded", "decoded"} /\ encoded.ok)
        => \A c \in Symbols :
              c \in TreeLeaves /\ encoded.canonicalList[c].codeLen > 0

\* C25 amended: a symbol is a leaf of the tree built and gets a nonzero code
\* length exactly when it occurs in the stream or is EOF; the leaf of any other
\* symbol keeps count 0, stays ignored and without parent, and its code length is 0
C25_ZeroCountLeftOut ==
    (pc \in {"encoded", "decoded"} /\ encoded.ok)
        => \A c \in Symbols :
              IF c \in Used(masked_data)
              THEN c \in TreeLeaves /\ encoded.canonicalList[c].codeLen > 0
              ELSE /\ encoded.tree.nodes[c + 1].count = 0
                   /\ encoded.tree.nodes[c + 1].ignore
                   /\ encoded.tree.nodes[c + 1].parent = NULL
                   /\ c \notin TreeLeaves
                   /\ encoded.canonicalList[c].codeLen = 0

\* a tree of two merges was built for a stream in which one data symbol never occurs
C25_Witness ==
    /\ pc = "encoded" /\ encoded.ok
    /\ encoded.tree.merges = 2
    /\ \E c \in DataSymbols :
         /\ c \notin Used(masked_data)
         /\ encoded.canonicalList[c].codeLen = 0
         /\ encoded.tree.nodes[c + 1].ignore

\* C26: the canonical list of an encoded stream has entry i describe symbol i,
\* and an entry has code length 0 and no code exactly when its symbol neither
\* occurs in the stream nor is EOF; every other entry has both a length and a code
C26_CanonicalList ==
    (pc \in {"encoded", "decoded"} /\ encoded.ok)
        => /\ DOMAIN encoded.canonicalList = Symbols
           /\ \A i \in Symbols :
                 /\ encoded.canonicalList[i].value = i
                 /\ (encoded.canonicalList[i].codeLen = 0) <=> (i \notin Used(masked_data))
                 /\ (encoded.canonicalList[i].code = NULL_CODE) <=> (i \notin Used(masked_data))

\* a list with an unused symbol, in which the order by code length is not the
\* order by symbol value
C26_Witness ==
    /\ pc = "encoded" /\ encoded.ok
    /\ \E i \in DataSymbols :
         i \notin Used(masked_data) /\ encoded.canonicalList[i].code = NULL_CODE
    /\ \E a \in Used(masked_data), b \in Used(masked_data) :
         /\ a < b
         /\ encoded.canonicalList[a].codeLen > encoded.canonicalList[b].codeLen
         /\ encoded.canonicalList[a].value = a /\ encoded.canonicalList[b].value = b

\* C27: the decode loop ends only in a turn that matches EOF; a turn that
\* matches a data value emits that one value and goes on accumulating from
\* length 0 with all code bits clear; a turn without a match emits nothing and
\* lengthens the accumulated code by the one bit it consumed; only entries of
\* the accumulated length are compared
C27_DecodeStateMachine ==
    [][(pc = "decoding" /\ pc' # "undefined")
          => /\ dec'.j = dec.j + 1
             /\ (pc' = "done") <=> (dec'.matched # NONE
                                      /\ dec.canonicalList[dec'.matched].value = EOF_CHAR)
             /\ \A i \in dec'.tested : dec.canonicalList[i].codeLen = dec.length + 1
             /\ IF dec'.matched = NONE
                THEN dec'.length = dec.length + 1 /\ dec'.decoded = dec.decoded
                ELSE /\ dec'.matched \in dec'.tested
                     /\ dec'.length = 0
                     /\ dec'.code = BitArrayClearAll(dec.code)
                     /\ IF dec.canonicalList[dec'.matched].value # EOF_CHAR
                        THEN /\ dec'.decoded = Append(dec.decoded,
                                                      dec.canonicalList[dec'.matched].value)
                             /\ pc' = "decoding"
                        ELSE dec'.decoded = dec.decoded]_vars

\* the loop is in the middle of a codeword, two bits accumulated, after it has
\* emitted two values or more
C27_Witness ==
    /\ pc = "decoding" /\ ~dec.decodedEOF
    /\ dec.length >= 2 /\ dec.matched = NONE
    /\ Len(dec.decoded) >= 2
    /\ dec.j < CHAR_BIT * Len(dec.data)

\* C28: the running code given to an entry of length L is below 2^L, the
\* left-justified code stored for the entry holds all of its bits, and the
\* increment that follows does not wrap the bit array
C28_NoCodeOverflow ==
    (pc \in {"assigning", "assigned"} /\ assigning.codeLen > 0)
        => /\ assigning.value < Pow2(assigning.codeLen)
           /\ BitsValue(assigning.cl[assigning.i + 1].code, NUM_CHARS - 1)
                 = assigning.value * Pow2(NUM_CHARS - 1 - assigning.codeLen)
           /\ ~assigning.carried

\* an entry of length 2 or more got a nonzero code right after the running code
\* was shifted to a shorter length
C28_Witness ==
    /\ pc = "assigning"
    /\ assigning.codeLen >= 2 /\ assigning.shifts >= 1
    /\ assigning.value >= 1 /\ assigning.value < Pow2(assigning.codeLen)

\* the sum over the entries of nonzero length of 2^(-codeLen), scaled by 2^(NUM_CHARS - 1)
KraftSum(cl) ==
    SumTo([i \in Symbols |-> IF cl[i].codeLen = 0 THEN 0
                              ELSE Pow2(NUM_CHARS - 1 - cl[i].codeLen)], NUM_CHARS - 1)

\* C29: for a stream that is not empty the code lengths taken from the tree
\* fill the code space exactly (the Kraft sum is 1), and every right shift of
\* the running code removes zero bits only
C29_CompleteCode ==
    (pc \in {"assigning", "assigned"} /\ Len(masked_data) >= 1)
        => /\ KraftSum(assigning.cl) = Pow2(NUM_CHARS - 1)
           /\ assigning.dropped = 0

\* the running code, not zero, was shifted down to the shortest length, 1, of
\* a code with lengths 1, 2, 3 and 3
C29_Witness ==
    /\ pc = "assigning" /\ Len(masked_data) >= 3
    /\ assigning.shifts = 1 /\ assigning.codeLen = 1 /\ assigning.value = 1
    /\ assigning.dropped = 0
    /\ \E i \in Symbols : assigning.cl[i].codeLen = 3

\* C30: the number of elements cSquish_compress scans, and the number of
\* elements of the array cSquish_decompress returns for the file written, is
\* width * height of the array compressed, 0 when a dimension is 0
C30_ElementCount ==
    /\ (pc \in {"compressed", "failed", "crashed"} /\ ret # ShapeMismatch)
          => /\ RawLength(raw_width, raw_height) = raw_width * raw_height
             /\ Len(masked_data) <= raw_width * raw_height
    /\ (Written /\ pc = "decompress" /\ dec.status = "eof" /\ ret.kind = "array")
          => Len(ret.value) = raw_width * raw_height

====
